---- MODULE Spec2Model ----
(***************************************************************************)
(* azure-switchboard: selection, accounting and failover engine.           *)
(*                                                                         *)
(* Switchboard.create / select_deployment (switchboard.py),                *)
(* DeploymentState.create (deployment.py), the session LRU map, and the    *)
(* tenacity AsyncRetrying object that Switchboard.create iterates.         *)
(* Request tasks run on one asyncio loop: a step of the model is the code  *)
(* a task runs between two suspension points (the upstream await and the   *)
(* zero-second sleep tenacity inserts between attempts).                   *)
(***************************************************************************)
EXTENDS Integers, Sequences, FiniteSets, TLC

(***************************************************************************)
(* Bounds of the model.                                                    *)
(***************************************************************************)
\* No new call is issued once this many select_deployment calls were made.
MaxSelects == 3

\* The clock stops here.
MaxTime == 1

\* Switchboard(max_sessions=...)
max_sessions == 2

\* No further chunk arrives once a stream delivered this many.
MaxChunks == 2

\* No further start() once this many reset tickers were created.
MaxStarts == 2

\* No further session lookup once this many were made (session map runs).
MaxLruSelects == 5

\* Longest deployment list handed to the constructor.
MaxDeployments == 4

\* No further direct DeploymentState.create call once the models count this
\* many requests in the window, all together.
MaxCalls == 2

(***************************************************************************)
(* Configuration of the switchboard under analysis.                        *)
(***************************************************************************)
\* The request tasks that may run concurrently on the loop.
Tasks == {1, 2}

\* Switchboard.deployments is a dict: iteration follows insertion order.
DeploymentOrder == <<"A", "B">>

Deps == {DeploymentOrder[i] : i \in 1..Len(DeploymentOrder)}

\* DeploymentState.models: the models configured on each deployment.
ConfiguredModels(d) == IF d = "A" THEN {"m1", "m2"} ELSE {"m1"}

\* All (deployment, model) pairs that carry a Model object.
DM == {dm \in Deps \X {"m1", "m2"} : dm[2] \in ConfiguredModels(dm[1])}

\* Models create is called with; "m0" is configured on no deployment.
RequestModels == {"m1", "m0"}

\* The models select_deployment is called with directly: also m2, which only
\* A is configured with.
SelectModels == {"m1", "m2", "m0"}

\* session_id: 0 stands for None / the empty string (both falsy).
NoSession == 0

SessionKeys == {1}

\* Model.cooldown_period, in clock ticks.
CooldownPeriod == 1

\* Model.rpm / Model.tpm limits (same on every deployment).
RpmLimit == 3

TpmLimit == 8

\* stop_after_attempt(2)
MaxAttemptNumber == 2

\* Preflight token estimates of the requests issued (len(content) // 4).
PfValues == {0}

\* usage.total_tokens of a response; NoUsage: the response has no usage.
NoUsage == -1

UsageValues == {NoUsage}

\* The same for the token accounting runs.
TokPfValues == {0, 2}

TokUsageValues == {NoUsage, 1, 3}

\* The same for the runs with direct DeploymentState.create calls.
DepUsageValues == {NoUsage, 1}

\* total_tokens of every response in the runs that sum the counters.
SumUsage == 3

\* total_tokens of the responses in the runs that fill a model to its limit
\* and beyond.
LimitUsageValues == {NoUsage, TpmLimit, TpmLimit + 1}

\* Session keys of the session map runs.
LruKeys == {1, 2, 3, 4}

\* ratelimit_window: 0 disables the reset ticker.
WindowValues == {0, 1}

\* Deployment names handed to the constructor.
DeploymentNames == {"A", "B", "C"}

\* Usage counters and cooldown clocks of the models in the runs that call
\* the selector: up to the limit of requests, none or some tokens, healthy or
\* cooling down.
SelRpmValues == 0..RpmLimit

SelTpmValues == {0, 3}

SelCooldownValues == {0, 1}

\* Durations mark_down is called with; 0: none given.
DurationValues == {0, 2, 3}

\* What the upstream call of one attempt can do.
\*   "ok"          a completion is returned
\*   "RateLimit"   openai.RateLimitError (429)
\*   "Transient"   timeout, connection error, 5xx, unknown fault
\*   "Client4xx"   4xx other than 429 (BadRequestError, AuthenticationError)
\*   "Cancelled"   asyncio.CancelledError raised into the await
UpstreamKinds == {"ok", "RateLimit", "Transient", "Client4xx", "Cancelled"}

\* select_deployment's failure.
NoEligible == "NoEligible"

VARIABLES
    now,             \* time.time(), in ticks
    cooldown_until,  \* [DM -> Nat]     Model._cooldown_until
    rpm_usage,       \* [DM -> Nat]     Model.rpm_usage
    tpm_usage,       \* [DM -> Nat]     Model.tpm_usage
    sessions,        \* _LRUDict: sequence of [key, dep], least recent first
    self_deployments,  \* Switchboard.deployments: [name, models], in dict order
    policy_rs,       \* DEFAULT_FAILOVER_POLICY._retry_state (id of a RetryCallState)
    rs,              \* the RetryCallState objects: [id -> [attempt_number, outcome]]
    task,            \* the request tasks
    sel,             \* the latest select_deployment call and what it returned
    ratelimit_window,      \* Switchboard.ratelimit_window
    tickers,               \* the periodic_reset tasks created so far
    ratelimit_reset_task,  \* Switchboard.ratelimit_reset_task (0: None)
    ctor,            \* the latest Switchboard(deployments) call and its outcome
    stats_result,    \* whether stats() was called, and what the latest call returned
    pick             \* the latest two_random_choices call and what it returned

\* What the request path leaves alone.
envvars == <<ratelimit_window, tickers, ratelimit_reset_task, ctor, stats_result,
            pick>>

vars == <<now, cooldown_until, rpm_usage, tpm_usage, sessions,
          self_deployments, policy_rs, rs, task, sel, envvars>>

\* At most one RetryCallState per task is referenced at any time.
RSIds == Tasks

Max(a, b) == IF a >= b THEN a ELSE b

MinOf(S) == CHOOSE x \in S : \A y \in S : x <= y

\* The sum of f over the set S.
RECURSIVE SumOver(_, _)
SumOver(f, S) ==
    IF S = {} THEN 0
    ELSE LET x == CHOOSE y \in S : TRUE IN f[x] + SumOver(f, S \ {x})

(***************************************************************************)
(* Model (per deployment, per model counters and cooldown clock).          *)
(***************************************************************************)
Model_is_healthy(cu) == now >= cu

Model_mark_down(cu) == now + CooldownPeriod

\* mark_down(duration): now + (duration or cooldown_period); a duration of 0
\* (or none given) is falsy and stands for the default period.
Model_mark_down_for(cu, seconds) ==
    now + (IF seconds # 0 THEN seconds ELSE CooldownPeriod)

Model_mark_up(cu) == 0

Model_spend_request(r) == r + 1

\* Variant: the counter follows a negative spend below 0.
Model_spend_tokens_NoClamp(v, n) == v + n

Model_spend_tokens(v, n) == Max(0, v + n)

\* Model.reset_usage on one model [tpm, rpm, cu]: the counters are zeroed,
\* the cooldown clock is left alone.
Model_reset_usage(mdl) == [mdl EXCEPT !.tpm = 0, !.rpm = 0]

\* Model.util without the random tie-breaker, scaled by TpmLimit * RpmLimit.
Model_util_scaled(tpm, rpm) ==
    Max(IF TpmLimit > 0 THEN tpm * (IF RpmLimit > 0 THEN RpmLimit ELSE 1) ELSE 0,
        IF RpmLimit > 0 THEN rpm * (IF TpmLimit > 0 THEN TpmLimit ELSE 1) ELSE 0)

UtilScale == (IF TpmLimit > 0 THEN TpmLimit ELSE 1) * (IF RpmLimit > 0 THEN RpmLimit ELSE 1)

(***************************************************************************)
(* DeploymentState                                                         *)
(***************************************************************************)
\* Variant: every configured model counts as healthy.
is_healthy_IfConfigured(cu, d, m) == m \in ConfiguredModels(d)

is_healthy(cu, d, m) ==
    IF m \in ConfiguredModels(d) THEN Model_is_healthy(cu[<<d, m>>]) ELSE FALSE

\* DeploymentState.util, scaled; 0.0 when the model is not configured.
util(cu, tpm, rpm, d, m) ==
    IF m \in ConfiguredModels(d)
    THEN IF Model_is_healthy(cu[<<d, m>>])
         THEN Model_util_scaled(tpm[<<d, m>>], rpm[<<d, m>>])
         ELSE UtilScale
    ELSE 0

\* The Model object of deployment and model dm in st = [cu, rpm, tpm].
ModelOf(st, dm) == [tpm |-> st.tpm[dm], rpm |-> st.rpm[dm], cu |-> st.cu[dm]]

\* st with the Model objects of deployment d replaced by reset[dm].
WithModelsOf(st, d, reset) ==
    LET new(dm) == IF dm[1] = d THEN reset[dm] ELSE ModelOf(st, dm)
    IN [cu  |-> [dm \in DM |-> new(dm).cu],
        rpm |-> [dm \in DM |-> new(dm).rpm],
        tpm |-> [dm \in DM |-> new(dm).tpm]]

\* Variant: the reset also ends the cooldown of the deployment's models.
DeploymentState_reset_usage_MarkUp(st, d) ==
    WithModelsOf(st, d,
        [dm \in DM |-> [Model_reset_usage(ModelOf(st, dm)) EXCEPT !.cu = 0]])

\* DeploymentState.reset_usage: every model of the deployment is reset.
DeploymentState_reset_usage(st, d) ==
    WithModelsOf(st, d, [dm \in DM |-> Model_reset_usage(ModelOf(st, dm))])

\* Model.stats(): the UtilStats of one model [tpm, rpm, cu].
Model_stats(mdl) ==
    [tpm_usage |-> mdl.tpm, tpm_limit |-> TpmLimit,
     rpm_usage |-> mdl.rpm, rpm_limit |-> RpmLimit,
     healthy |-> Model_is_healthy(mdl.cu)]

\* Variant: only the deployment's first model is reported.
DeploymentState_stats_FirstModel(st, d) ==
    [m \in {"m1"} |-> Model_stats(ModelOf(st, <<d, m>>))]

\* DeploymentState.stats: {name: model.stats()} over the deployment's models.
DeploymentState_stats(st, d) ==
    [m \in ConfiguredModels(d) |-> Model_stats(ModelOf(st, <<d, m>>))]

\* Switchboard.stats: {name: deployment.stats()} over the deployments.
stats(st) == [d \in Deps |-> DeploymentState_stats(st, d)]

\* stats() was not called yet.
NoStats ==
    [called |-> FALSE,
     out |-> [d \in Deps |-> [m \in ConfiguredModels(d) |->
                [tpm_usage |-> 0, tpm_limit |-> TpmLimit,
                 rpm_usage |-> 0, rpm_limit |-> RpmLimit, healthy |-> TRUE]]]]

(***************************************************************************)
(* _LRUDict                                                                *)
(***************************************************************************)
SessHas(S, k) == \E i \in 1..Len(S) : S[i].key = k

SessIndex(S, k) == CHOOSE i \in 1..Len(S) : S[i].key = k

SessGet(S, k) == S[SessIndex(S, k)].dep

SessRemove(S, k) == SelectSeq(S, LAMBDA e : e.key # k)

\* Variant: a read leaves the order alone.
SessTouch_NoMove(S, k) == S

\* __getitem__: move_to_end(key)
SessTouch(S, k) == Append(SessRemove(S, k), S[SessIndex(S, k)])

RECURSIVE SessEvict(_)
SessEvict(S) == IF Len(S) > max_sessions THEN SessEvict(Tail(S)) ELSE S

\* Variant: nothing is evicted.
SessPut_NoEvict(S, k, v) == Append(SessRemove(S, k), [key |-> k, dep |-> v])

\* __setitem__: set, move_to_end(key), evict from the front while too long
SessPut(S, k, v) == SessEvict(Append(SessRemove(S, k), [key |-> k, dep |-> v]))

(***************************************************************************)
(* two_random_choices                                                      *)
(***************************************************************************)
\* Variant: the sampled deployment with the larger util comes out.
CanWin_Larger(cu, tpm, rpm, m, d1, d2) ==
    100 * (util(cu, tpm, rpm, d2, m) - util(cu, tpm, rpm, d1, m)) < UtilScale

\* d1 can come out of min((d1, d2), key=util): each util carries a fresh
\* tie-breaker in [0, 0.01), so d1 wins iff util(d1) - util(d2) < 0.01.
CanWin(cu, tpm, rpm, m, d1, d2) ==
    100 * (util(cu, tpm, rpm, d1, m) - util(cu, tpm, rpm, d2, m)) < UtilScale

two_random_choices(cu, tpm, rpm, m, options) ==
    IF Cardinality(options) = 1 THEN options
    ELSE {d1 \in options :
            \E d2 \in options \ {d1} : CanWin(cu, tpm, rpm, m, d1, d2)}

\* selected = random.sample(options, min(2, len(options))): the sets of one
\* or two distinct members of options a sample can consist of.
Samples(options) ==
    IF Cardinality(options) = 1 THEN {options}
    ELSE {{d1, d2} : d1 \in options, d2 \in options} \ {{d} : d \in options}

\* min(selected, key=lambda d: d.util(model)): what can come out for a sample.
MinByUtil(cu, tpm, rpm, m, selected) ==
    {d1 \in selected : \A d2 \in selected \ {d1} : CanWin(cu, tpm, rpm, m, d1, d2)}

\* No two_random_choices call observed yet.
NoPick ==
    [called |-> FALSE, model |-> "m1", options |-> {}, selected |-> {},
     result |-> "-"]

(***************************************************************************)
(* Switchboard.select_deployment                                           *)
(***************************************************************************)
\* self.deployments as the constructor leaves it: one DeploymentState per
\* deployment given, each with the models of its configuration.
DeploymentsAtConstruction ==
    [i \in 1..Len(DeploymentOrder) |->
        [name |-> DeploymentOrder[i], models |-> ConfiguredModels(DeploymentOrder[i])]]

\* The names of a deployments map, in its order.
DeploymentNamesOf(ds) == [i \in 1..Len(ds) |-> ds[i].name]

\* Variant: a deployment whose model was marked down stays out of the list.
eligible_deployments_NeverMarked(cu, m) ==
    SelectSeq(DeploymentNamesOf(self_deployments),
              LAMBDA d : is_healthy(cu, d, m) /\ cu[<<d, m>>] = 0)

eligible_deployments(cu, m) ==
    SelectSeq(DeploymentNamesOf(self_deployments), LAMBDA d : is_healthy(cu, d, m))

SeqRange(s) == {s[i] : i \in 1..Len(s)}

\* Variant: no session key is ever found in the map.
SessionLookup_Never(S, s) == FALSE

\* The session entry is looked up (and touched) when the key is present.
SessionLookup(S, s) == s # NoSession /\ SessHas(S, s)

\* Variant: the session's deployment is returned without the health check.
SelectChoices_PinUnchecked(cu, tpm, rpm, S, m, s) ==
    LET elig == eligible_deployments(cu, m) IN
    IF SessionLookup(S, s) THEN {SessGet(S, s)}
    ELSE IF Len(elig) = 0 THEN {}
    ELSE IF Len(elig) = 1 THEN {elig[1]}
    ELSE two_random_choices(cu, tpm, rpm, m, SeqRange(elig))

\* The deployments the selection can end with (empty: it raises).
SelectChoices(cu, tpm, rpm, S, m, s) ==
    LET elig == eligible_deployments(cu, m) IN
    IF SessionLookup(S, s) /\ is_healthy(cu, SessGet(S, s), m)
    THEN {SessGet(S, s)}
    ELSE IF Len(elig) = 0 THEN {}
    ELSE IF Len(elig) = 1 THEN {elig[1]}
    ELSE two_random_choices(cu, tpm, rpm, m, SeqRange(elig))

\* Variant: a key that is already present is not overwritten.
SessionsAfterSelect_NoRepin(cu, S, m, s, d) ==
    LET S1 == IF SessionLookup(S, s) THEN SessTouch(S, s) ELSE S IN
    IF SessionLookup(S, s) THEN S1
    ELSE IF d = NoEligible THEN S1
    ELSE IF s # NoSession THEN SessPut(S1, s, d)
    ELSE S1

\* The session map after a selection that ended with d.
SessionsAfterSelect(cu, S, m, s, d) ==
    LET S1 == IF SessionLookup(S, s) THEN SessTouch(S, s) ELSE S IN
    IF SessionLookup(S, s) /\ is_healthy(cu, SessGet(S, s), m) THEN S1
    ELSE IF d = NoEligible THEN S1
    ELSE IF s # NoSession THEN SessPut(S1, s, d)
    ELSE S1

(***************************************************************************)
(* Switchboard.reset_usage                                                 *)
(***************************************************************************)
RECURSIVE ResetEach(_, _)
ResetEach(st, ds) ==
    IF ds = <<>> THEN st
    ELSE ResetEach(DeploymentState_reset_usage(st, Head(ds)), Tail(ds))

\* Variant: only the first deployment is reset.
reset_usage_FirstOnly(st) == DeploymentState_reset_usage(st, DeploymentOrder[1])

\* for deployment in self.deployments.values(): deployment.reset_usage()
reset_usage(st) == ResetEach(st, DeploymentOrder)

(***************************************************************************)
(* The state as a record, so that the code a task runs between two         *)
(* suspension points can be followed statement by statement.               *)
(***************************************************************************)
Cur ==
    [cu |-> cooldown_until, rpm |-> rpm_usage, tpm |-> tpm_usage,
     sess |-> sessions, deps |-> self_deployments, pol |-> policy_rs, rs |-> rs,
     task |-> task, sel |-> sel]

Commit(x) ==
    /\ cooldown_until' = x.cu
    /\ rpm_usage' = x.rpm
    /\ tpm_usage' = x.tpm
    /\ sessions' = x.sess
    /\ self_deployments' = x.deps
    /\ policy_rs' = x.pol
    /\ rs' = x.rs
    /\ task' = x.task
    /\ sel' = x.sel

\* RetryCallState(...) as constructed by AsyncRetrying.__aiter__
\* by: the task whose attempt set the outcome (0: no outcome).
NewRetryState == [attempt_number |-> 1, outcome |-> "none", by |-> 0]

\* A task that is not inside Switchboard.create.
\*   pc         "idle", "upstream" (awaiting the upstream call of an
\*              attempt), "sleep" (awaiting tenacity's sleep(0)), "stream"
\*              (create returned an _AsyncStreamWrapper the caller iterates)
\*   stream     the request's stream flag
\*   direct     DeploymentState.create was called by the task itself, not by
\*              Switchboard.create (no selection, no failover policy)
\*   dep, am    deployment of the running attempt; retry state its
\*              AttemptManager holds
\*   nsel       select_deployment invocations of the call (= attempts)
\*   last_dep, last_kind   deployment and upstream outcome of the attempt
\*              before the running one
\*   rpm_before rpm_usage of (dep, model) when DeploymentState.create began
\*   tpm_before tpm_usage of (dep, model) when DeploymentState.create began
\*   reset      reset_usage ran while the attempt was awaiting upstream or
\*              while its stream was open
\*   chunks, usage_chunks   chunks the open stream yielded; those with usage
\*   last_usage total_tokens of the latest response or chunk that had usage
\*   last_exc   the exception the call's latest attempt ended with
\*   final      how the latest call ended ("none": none yet / in progress);
\*              model, nsel, last_dep, last_kind, last_usage and last_exc
\*              stay until the next call
\*   final_by   the task whose attempt raised the exception the call ended
\*              with (0: it did not end with a stored exception)
IdleTask ==
    [pc |-> "idle", model |-> "m1", session |-> NoSession, pf |-> 0,
     stream |-> FALSE, direct |-> FALSE, dep |-> "-", am |-> 0, nsel |-> 0,
     last_dep |-> "-",
     last_kind |-> "-", rpm_before |-> 0, tpm_before |-> 0, reset |-> FALSE,
     chunks |-> 0, usage_chunks |-> 0, last_usage |-> NoUsage,
     last_exc |-> "-", final |-> "none", final_by |-> 0]

\* sel: the latest select_deployment call.
\*   n       number of select_deployment calls made so far
\*   by      the task whose create made the call; 0: called directly
\*   consec  the call before had the same session key and model and
\*           returned a deployment
\*   result  the deployment returned, or NoEligible
\*   pinned  the deployment the session key mapped to before the call
\*   moved   the deployment the session was moved away from, kept over
\*           consecutive calls with the same key
\*   evicted the keys the call removed from the session map
\*   lastuse for each key, the number of the latest call that read or wrote
\*           its entry (0: never)
NoSelect ==
    [n |-> 0, by |-> 0, model |-> "m1", session |-> NoSession, result |-> "-",
     consec |-> FALSE, pinned |-> "-", moved |-> "-", evicted |-> {},
     lastuse |-> [k \in SessionKeys \cup LruKeys |-> 0]]

(***************************************************************************)
(* DEFAULT_FAILOVER_POLICY = AsyncRetrying(stop_after_attempt(2),          *)
(*     retry_if_not_exception_type(SwitchboardError), reraise=True)        *)
(***************************************************************************)
\* Variant: every exception create can end an attempt with is one.
IsSwitchboardError_Any(e) == TRUE

\* Exceptions of class SwitchboardError.
IsSwitchboardError(e) == e \in {"NoEligible", "RateLimited", "NotConfigured"}

\* Variant: every failed outcome is retried, SwitchboardError included.
ShouldRetry_AnyFailure(outcome) == outcome # "result"

\* retry_if_not_exception_type(SwitchboardError): the outcome failed and its
\* exception (any BaseException) is not a SwitchboardError.
ShouldRetry(outcome) == outcome # "result" /\ ~IsSwitchboardError(outcome)

\* Variant: stop_after_attempt(1), no second attempt.
ShouldStop_AfterFirst(st) == st.attempt_number >= 1

\* stop_after_attempt(2)
ShouldStop(st) == st.attempt_number >= MaxAttemptNumber

\* BaseRetrying.iter on the retry state st.
IterDecision(st) ==
    IF st.outcome = "none" THEN "attempt"
    ELSE IF ~ShouldRetry(st.outcome)
         THEN IF st.outcome = "result" THEN "return_none" ELSE "raise"
    ELSE IF ShouldStop(st) THEN "raise"
    ELSE "sleep"

\* Switchboard.create is left: the result, or the exception raised.
Finished(tk, final) ==
    [IdleTask EXCEPT !.final = final, !.nsel = tk.nsel, !.direct = tk.direct,
                     !.model = tk.model,
                     !.last_dep = tk.last_dep, !.last_kind = tk.last_kind,
                     !.last_usage = tk.last_usage, !.last_exc = tk.last_exc]

\* __anext__ when iter does not start an attempt: fut.result() (the stored
\* exception is raised, or None ends the loop), reraise on stop, or
\* prepare_for_next_attempt followed by `await sleep(0)`.
Settle(x, t) ==
    LET p == x.pol
        st == x.rs[p]
        dec == IterDecision(st)
    IN IF dec = "sleep"
       THEN [x EXCEPT !.rs[p] = [attempt_number |-> st.attempt_number + 1,
                                 outcome |-> "none", by |-> 0],
                      !.task[t].pc = "sleep"]
       ELSE [x EXCEPT !.task[t] =
                [Finished(@, IF dec = "return_none" THEN "None" ELSE st.outcome)
                   EXCEPT !.final_by = IF dec = "return_none" THEN 0 ELSE st.by]]

(***************************************************************************)
(* DeploymentState.create                                                  *)
(***************************************************************************)
\* Variant: every name resolves to the deployment's first model.
ModelAt_First(d, m) == <<d, "m1">>

\* self.models[model]: the Model object create and the stream wrapper account
\* on.
ModelAt(d, m) == <<d, m>>

\* Variant: the estimate is not spent before the upstream call.
PreflightTpm_NoSpend(tpm, d, m, pf) == tpm

\* Preflight accounting: spend_tokens(estimate), spend_request().
PreflightTpm(tpm, d, m, pf) == [tpm EXCEPT ![ModelAt(d, m)] = Model_spend_tokens(@, pf)]

\* Variant: the request is not counted before the upstream call.
PreflightRpm_NoSpend(rpm, d, m) == rpm

PreflightRpm(rpm, d, m) == [rpm EXCEPT ![ModelAt(d, m)] = Model_spend_request(@)]

\* Variant: the response's total_tokens is added on top of the estimate.
ReconcileTpm_DoubleCount(tpm, d, m, pf, usage) ==
    IF usage = NoUsage THEN tpm
    ELSE [tpm EXCEPT ![<<d, m>>] = Model_spend_tokens(@, usage)]

\* After the response: spend_tokens(total_tokens - estimate) if it has usage.
ReconcileTpm(tpm, d, m, pf, usage) ==
    IF usage = NoUsage THEN tpm
    ELSE [tpm EXCEPT ![ModelAt(d, m)] = Model_spend_tokens(@, usage - pf)]

\* Variant: a chunk's total_tokens is added on top of the preflight estimate.
StreamReconcileTpm_NoOffset(tpm, d, m, offset, usage) ==
    IF usage = NoUsage THEN tpm
    ELSE [tpm EXCEPT ![<<d, m>>] = Model_spend_tokens(@, usage)]

\* _AsyncStreamWrapper: spend_tokens(chunk.usage.total_tokens - offset) for a
\* chunk that has usage.
StreamReconcileTpm(tpm, d, m, offset, usage) ==
    IF usage = NoUsage THEN tpm
    ELSE [tpm EXCEPT ![ModelAt(d, m)] = Model_spend_tokens(@, usage - offset)]

\* Variant: a response is returned without reconciling.
TpmAfterUpstream_NoReconcile(tpm, tk, kind, usage) == tpm

\* The token counters when the upstream call of tk's attempt has ended: a
\* response to a non-streaming request is reconciled; a stream is left to
\* its wrapper, and a failure leaves the estimate in.
TpmAfterUpstream(tpm, tk, kind, usage) ==
    IF kind = "ok" /\ ~tk.stream
    THEN ReconcileTpm(tpm, tk.dep, tk.model, tk.pf, usage)
    ELSE tpm

\* Variant: the handlers catch BaseException, cancellation included.
CaughtByHandlers_BaseException(kind) == kind # "ok"

\* The exceptions `except RateLimitError` and `except Exception` catch.
\* CancelledError is a BaseException and passes through both handlers.
CaughtByHandlers(kind) == kind \in {"RateLimit", "Transient", "Client4xx"}

\* Variant: only the RateLimitError handler marks the model down.
CooldownAfterUpstream_RateLimitOnly(cu, d, m, kind) ==
    IF kind = "RateLimit" THEN [cu EXCEPT ![<<d, m>>] = Model_mark_down(@)] ELSE cu

\* except RateLimitError / except Exception: mark_down.
CooldownAfterUpstream(cu, d, m, kind) ==
    IF CaughtByHandlers(kind)
    THEN [cu EXCEPT ![ModelAt(d, m)] = Model_mark_down(@)]
    ELSE cu

\* Variant: the wrapper is built with its default offset, 0.
WrapperOffset_Default(pf) == 0

\* _AsyncStreamWrapper(..., offset=_preflight_estimate)
WrapperOffset(pf) == pf

\* Variant: the wrapper raises without marking the model down.
CooldownAfterStreamError_NoMarkDown(cu, d, m) == cu

\* _AsyncStreamWrapper, except Exception: self._self_model.mark_down()
CooldownAfterStreamError(cu, d, m) == [cu EXCEPT ![ModelAt(d, m)] = Model_mark_down(@)]

\* Variant: the upstream exception is raised as it came.
RaisedFor_Untranslated(kind) == kind

\* The exception DeploymentState.create raises for an upstream fault.
RaisedFor(kind) ==
    CASE kind = "RateLimit" -> "RateLimited"
      [] kind \in {"Transient", "Client4xx"} -> "RuntimeError"
      [] kind = "Cancelled" -> "CancelledError"

\* `model in self.models`
ModelConfigured(d, m) == m \in ConfiguredModels(d)

\* Variant: without the check up front, a model that is not configured is
\* sent upstream, unaccounted.
DeploymentState_create_NoCheck(x, t, d) ==
    LET tk == x.task[t]
        m == tk.model
    IN IF ~ModelConfigured(d, m)
       THEN [x EXCEPT !.task[t] = [tk EXCEPT !.pc = "upstream", !.dep = d]]
       ELSE [x EXCEPT !.tpm = PreflightTpm(@, d, m, tk.pf),
                      !.rpm = PreflightRpm(@, d, m),
                      !.task[t] = [tk EXCEPT !.pc = "upstream", !.dep = d,
                                      !.rpm_before = x.rpm[<<d, m>>],
                                      !.tpm_before = x.tpm[<<d, m>>],
                                      !.reset = FALSE]]

\* DeploymentState.create(model, stream, messages) on d for task t's request,
\* up to its upstream await: a model that is not configured raises
\* SwitchboardError at once (the task is not left awaiting), otherwise the
\* estimate and the request are spent and the upstream call is issued.
DeploymentState_create(x, t, d) ==
    LET tk == x.task[t]
        m == tk.model
    IN IF ~ModelConfigured(d, m)
       THEN [x EXCEPT !.task[t].last_exc = "NotConfigured"]
       ELSE [x EXCEPT !.tpm = PreflightTpm(@, d, m, tk.pf),
                      !.rpm = PreflightRpm(@, d, m),
                      !.task[t] = [tk EXCEPT !.pc = "upstream", !.dep = d,
                                      !.rpm_before = x.rpm[<<d, m>>],
                                      !.tpm_before = x.tpm[<<d, m>>],
                                      !.reset = FALSE]]

(***************************************************************************)
(* Switchboard.create: one pass of `async for attempt in failover_policy`  *)
(***************************************************************************)
SelectRecord(x, by, m, s, d) ==
    LET was == IF SessionLookup(x.sess, s) THEN SessGet(x.sess, s) ELSE "-"
        after == SessionsAfterSelect(x.cu, x.sess, m, s, d)
        used == s # NoSession /\ (SessHas(x.sess, s) \/ SessHas(after, s))
    IN
    [n |-> x.sel.n + 1, by |-> by, model |-> m, session |-> s, result |-> d,
     evicted |-> {x.sess[i].key : i \in 1..Len(x.sess)}
                   \ {after[i].key : i \in 1..Len(after)},
     lastuse |-> IF used THEN [x.sel.lastuse EXCEPT ![s] = x.sel.n + 1]
                 ELSE x.sel.lastuse,
     consec |-> s # NoSession /\ x.sel.session = s /\ x.sel.model = m
                  /\ x.sel.result \in Deps,
     pinned |-> was,
     moved |-> IF s = NoSession THEN "-"
               ELSE IF was # "-" /\ d \in Deps /\ d # was THEN was
               ELSE IF x.sel.session = s THEN x.sel.moved
               ELSE "-"]

\* Variant: a deployment goes with the session entry that is evicted.
AfterSelect_EvictDestroys(x, by, m, s, d) ==
    LET after == SessionsAfterSelect(x.cu, x.sess, m, s, d)
        gone == {x.sess[i].dep : i \in {j \in 1..Len(x.sess) :
                                          ~SessHas(after, x.sess[j].key)}}
    IN [x EXCEPT !.sess = after,
                 !.deps = SelectSeq(@, LAMBDA e : e.name \notin gone),
                 !.sel = SelectRecord(x, by, m, s, d)]

\* The state after select_deployment(m, s) ended with d (or raised).
AfterSelect(x, by, m, s, d) ==
    [x EXCEPT !.sess = SessionsAfterSelect(x.cu, x.sess, m, s, d),
              !.sel = SelectRecord(x, by, m, s, d)]

\* `with attempt:` the AttemptManager holds the policy's current retry state;
\* select_deployment, then DeploymentState.create up to the upstream await.
Attempt(x, t) ==
    LET tk == x.task[t]
        p == x.pol
        m == tk.model
        s == tk.session
        choices == SelectChoices(x.cu, x.tpm, x.rpm, x.sess, m, s)
        Failed(d, exc) ==
            LET x1 == AfterSelect(x, t, m, s, d) IN
            Settle([x1 EXCEPT !.rs[p].outcome = exc,
                              !.rs[p].by = t,
                              !.task[t].nsel = @ + 1,
                              !.task[t].last_exc = exc], t)
        Sent(d) ==
            LET x1 == DeploymentState_create(AfterSelect(x, t, m, s, d), t, d) IN
            [x1 EXCEPT !.task[t].am = p, !.task[t].nsel = @ + 1]
    IN IF choices = {} THEN {Failed(NoEligible, "NoEligible")}
       ELSE {IF ModelConfigured(d, m) THEN Sent(d) ELSE Failed(d, "NotConfigured")
               : d \in choices}

\* AsyncRetrying.__anext__: iter on the policy's shared _retry_state.
PolicyIter(x, t) ==
    IF IterDecision(x.rs[x.pol]) = "attempt" THEN Attempt(x, t) ELSE {Settle(x, t)}

(***************************************************************************)
(* Switchboard.__init__                                                    *)
(***************************************************************************)
\* What the constructor ends with: SwitchboardError raised, or the names of
\* self.deployments in dict (insertion) order.
CtorError == [error |-> TRUE, names |-> <<>>]

CtorOk(names) == [error |-> FALSE, names |-> names]

\* The loop without the duplicate check: a repeated name overwrites its entry
\* and keeps its place.
RECURSIVE AddDeployments_Overwrite(_, _)
AddDeployments_Overwrite(have, rest) ==
    IF rest = <<>> THEN CtorOk(have)
    ELSE IF Head(rest) \in SeqRange(have)
         THEN AddDeployments_Overwrite(have, Tail(rest))
    ELSE AddDeployments_Overwrite(Append(have, Head(rest)), Tail(rest))

\* for deployment in deployments: a name already in self.deployments raises,
\* otherwise it is added.
RECURSIVE AddDeployments(_, _)
AddDeployments(have, rest) ==
    IF rest = <<>> THEN CtorOk(have)
    ELSE IF Head(rest) \in SeqRange(have) THEN CtorError
    ELSE AddDeployments(Append(have, Head(rest)), Tail(rest))

\* Variant: no duplicate check.
Switchboard_init_Overwrite(deployments) ==
    IF deployments = <<>> THEN CtorError
    ELSE AddDeployments_Overwrite(<<>>, deployments)

\* Switchboard(deployments): `if not deployments: raise`, then the loop.
Switchboard_init(deployments) ==
    IF deployments = <<>> THEN CtorError
    ELSE AddDeployments(<<>>, deployments)

\* No constructor call observed yet.
NoCtor == [called |-> FALSE, deployments |-> <<>>, result |-> CtorError]

\* All deployment lists of up to MaxDeployments names.
DeploymentLists ==
    UNION {[1..n -> DeploymentNames] : n \in 0..MaxDeployments}

(***************************************************************************)
(* Switchboard.start / stop: the periodic_reset task                       *)
(***************************************************************************)
\* A ticker: st is "created" (create_task done, not yet run), "sleeping"
\* (in asyncio.sleep(ratelimit_window)) or "done" (returned or cancelled);
\* fired: it has called reset_usage.
NewTicker == [st |-> "created", fired |-> FALSE]

\* Variant: the window is not looked at; the loop is always entered.
TickerFirstRun_AlwaysLoop(window) == "sleeping"

\* periodic_reset up to its first suspension: returns at once when the
\* window is 0 (falsy), otherwise enters the loop and sleeps.
TickerFirstRun(window) == IF window = 0 THEN "done" ELSE "sleeping"

\* Tickers that have not returned and were not cancelled.
Running == {i \in 1..Len(tickers) : tickers[i].st # "done"}

(***************************************************************************)
(* Initial state: a Switchboard just constructed, nothing requested.       *)
(***************************************************************************)
InitWith(window) ==
    /\ now = 0
    /\ cooldown_until = [dm \in DM |-> 0]
    /\ rpm_usage = [dm \in DM |-> 0]
    /\ tpm_usage = [dm \in DM |-> 0]
    /\ sessions = <<>>
    /\ self_deployments = DeploymentsAtConstruction
    /\ policy_rs = 0
    /\ rs = [i \in RSIds |-> NewRetryState]
    /\ task = [t \in Tasks |-> IdleTask]
    /\ sel = NoSelect
    /\ ratelimit_window = window
    /\ tickers = <<>>
    /\ ratelimit_reset_task = 0
    /\ ctor = NoCtor
    /\ stats_result = NoStats
    /\ pick = NoPick

\* ratelimit_window has its default (60 s: one window).
Init == InitWith(1)

\* Switchboard(..., ratelimit_window=w)
InitLife == \E w \in WindowValues : InitWith(w)

\* A switchboard some way into a window: the models hold usage, and some
\* are cooling down.
InitSel ==
    /\ now = 0
    /\ cooldown_until \in [DM -> SelCooldownValues]
    /\ rpm_usage \in [DM -> SelRpmValues]
    /\ tpm_usage \in [DM -> SelTpmValues]
    /\ sessions = <<>>
    /\ self_deployments = DeploymentsAtConstruction
    /\ policy_rs = 0
    /\ rs = [i \in RSIds |-> NewRetryState]
    /\ task = [t \in Tasks |-> IdleTask]
    /\ sel = NoSelect
    /\ ratelimit_window = 1
    /\ tickers = <<>>
    /\ ratelimit_reset_task = 0
    /\ ctor = NoCtor
    /\ stats_result = NoStats
    /\ pick = NoPick

(***************************************************************************)
(* Actions                                                                 *)
(***************************************************************************)
\* create(model=m, session_id=s, messages=...) is called by task t:
\* __aiter__ replaces the policy's _retry_state, then the first attempt runs
\* up to its upstream await (or the call fails in select_deployment).
CreateCall(t, m, s, pf, stream) ==
    /\ task[t].pc = "idle"
    /\ sel.n < MaxSelects
    /\ LET held == {task[u].am : u \in {v \in Tasks : task[v].pc = "upstream"}}
           rid == MinOf(RSIds \ held)
           x0 == [Cur EXCEPT !.pol = rid,
                             !.rs[rid] = NewRetryState,
                             !.task[t] = [IdleTask EXCEPT !.model = m,
                                             !.session = s, !.pf = pf,
                                             !.stream = stream]]
       IN \E x \in PolicyIter(x0, t) : Commit(x)
    /\ UNCHANGED <<now, envvars>>

\* create(..., stream=False)
CreateStart(t, m, s, pf) == CreateCall(t, m, s, pf, FALSE)

\* create(..., stream=True)
CreateStream(t, m, s, pf) == CreateCall(t, m, s, pf, TRUE)

\* The upstream call of task t's attempt ends.
UpstreamReturn(t, kind, usage) ==
    /\ task[t].pc = "upstream"
    /\ (kind # "ok" \/ task[t].stream => usage = NoUsage)
    /\ LET tk == task[t]
           d == tk.dep
           m == tk.model
           cu1 == CooldownAfterUpstream(cooldown_until, d, m, kind)
           tpm1 == TpmAfterUpstream(tpm_usage, tk, kind, usage)
           x0 == [Cur EXCEPT
                    !.cu = cu1,
                    !.tpm = tpm1,
                    !.task[t] = [tk EXCEPT !.last_dep = d, !.last_kind = kind,
                                           !.last_usage = usage,
                                           !.last_exc = IF kind = "ok" THEN "-"
                                                        ELSE RaisedFor(kind),
                                           !.dep = "-", !.am = 0,
                                           !.rpm_before = 0, !.tpm_before = 0,
                                           !.reset = FALSE]]
           \* AttemptManager.__exit__: set_result / set_exception on the
           \* retry state this attempt was started with
           x1 == IF tk.direct THEN x0
                 ELSE [x0 EXCEPT
                         !.rs[tk.am].outcome = IF kind = "ok" THEN "result"
                                               ELSE RaisedFor(kind),
                         !.rs[tk.am].by = t]
           \* stream=True: the wrapper is returned with deployment, model and
           \* offset = the preflight estimate; the caller iterates it
           opened == [tk EXCEPT !.pc = "stream", !.am = 0, !.last_dep = d,
                                !.last_kind = kind]
       IN IF kind = "ok"
          THEN IF tk.stream
               THEN Commit([x1 EXCEPT !.task[t] = opened])
               ELSE Commit([x1 EXCEPT !.task[t] = Finished(@, "ok")])
          ELSE IF tk.direct
               THEN Commit([x1 EXCEPT !.task[t] = Finished(@, RaisedFor(kind))])
               ELSE \E x \in PolicyIter(x1, t) : Commit(x)
    /\ UNCHANGED <<now, envvars>>

\* DeploymentState.create(model=m, stream=..., messages=...) of deployment d
\* is called by task t itself.
DeploymentCreate(t, d, m, pf, stream) ==
    /\ task[t].pc = "idle"
    /\ SumOver(rpm_usage, DM) < MaxCalls
    /\ LET x0 == [Cur EXCEPT !.task[t] = [IdleTask EXCEPT !.model = m, !.pf = pf,
                                             !.stream = stream, !.direct = TRUE]]
           x1 == DeploymentState_create(x0, t, d)
       IN IF x1.task[t].pc = "upstream" THEN Commit(x1)
          ELSE Commit([x1 EXCEPT !.task[t] =
                         Finished([@ EXCEPT !.last_dep = d], x1.task[t].last_exc)])
    /\ UNCHANGED <<now, envvars>>

\* _AsyncStreamWrapper.__aiter__: the wrapped stream delivers a chunk, with
\* usage (total_tokens = usage) or without; it is reconciled and yielded.
StreamChunk(t, usage) ==
    /\ task[t].pc = "stream"
    /\ task[t].chunks < MaxChunks
    /\ LET tk == task[t] IN
       /\ tpm_usage' = StreamReconcileTpm(tpm_usage, tk.dep, tk.model,
                                          WrapperOffset(tk.pf), usage)
       /\ task' = [task EXCEPT ![t] =
                     [tk EXCEPT !.chunks = @ + 1,
                                !.usage_chunks = IF usage = NoUsage THEN @ ELSE @ + 1,
                                !.last_usage = IF usage = NoUsage THEN @ ELSE usage]]
    /\ UNCHANGED <<now, cooldown_until, rpm_usage, sessions, self_deployments,
                   policy_rs, rs, sel, envvars>>

\* The wrapped stream is exhausted: the caller's `async for` ends.
StreamEnd(t) ==
    /\ task[t].pc = "stream"
    /\ task[t].chunks > 0
    /\ task' = [task EXCEPT ![t] = Finished(@, "ok")]
    /\ UNCHANGED <<now, cooldown_until, rpm_usage, tpm_usage, sessions,
                   self_deployments, policy_rs, rs, sel, envvars>>

\* Variant: an error of the wrapped stream sends the request to another
\* deployment, as an error of the opening call does.
StreamError_Failover(t, kind) ==
    /\ task[t].pc = "stream"
    /\ kind \in {"RateLimit", "Transient"}
    /\ LET x0 == [Cur EXCEPT
                    !.cu = CooldownAfterStreamError(@, task[t].dep, task[t].model),
                    !.task[t] = [@ EXCEPT !.last_dep = task[t].dep,
                                          !.last_kind = kind,
                                          !.last_exc = RaisedFor(kind)]]
       IN \E x \in Attempt(x0, t) : Commit(x)
    /\ UNCHANGED <<now, envvars>>

\* The wrapped stream raises while it is iterated: except Exception marks
\* the model down and raises SwitchboardError or RuntimeError to the caller.
StreamError(t, kind) ==
    /\ task[t].pc = "stream"
    /\ kind \in {"RateLimit", "Transient"}
    /\ cooldown_until' = CooldownAfterStreamError(cooldown_until, task[t].dep,
                                                  task[t].model)
    /\ task' = [task EXCEPT ![t] =
                  Finished([@ EXCEPT !.last_dep = task[t].dep, !.last_kind = kind,
                                      !.last_exc = RaisedFor(kind)],
                           RaisedFor(kind))]
    /\ UNCHANGED <<now, rpm_usage, tpm_usage, sessions, self_deployments,
                   policy_rs, rs, sel, envvars>>

\* The task iterating the wrapper is cancelled: CancelledError is raised at
\* the `async for` over the wrapped stream; it is a BaseException, which
\* `except Exception` does not catch.
StreamCancel(t) ==
    /\ task[t].pc = "stream"
    /\ task' = [task EXCEPT ![t] =
                  Finished([@ EXCEPT !.last_dep = task[t].dep, !.last_kind = "Cancelled",
                                      !.last_exc = "CancelledError"],
                           "CancelledError")]
    /\ UNCHANGED <<now, cooldown_until, rpm_usage, tpm_usage, sessions,
                   self_deployments, policy_rs, rs, sel, envvars>>

\* tenacity's `await sleep(0)` between attempts returns.
SleepReturn(t) ==
    /\ task[t].pc = "sleep"
    /\ \E x \in PolicyIter(Cur, t) : Commit(x)
    /\ UNCHANGED <<now, envvars>>

\* Variant: a deployment whose model is at its limit (util of 1 or more) is
\* not returned.
SelectCall_UnderLimit(limit, m, s) ==
    /\ sel.n < limit
    /\ LET choices ==
             {d \in SelectChoices(cooldown_until, tpm_usage, rpm_usage, sessions, m, s) :
                util(cooldown_until, tpm_usage, rpm_usage, d, m) < UtilScale}
       IN IF choices = {} THEN Commit(AfterSelect(Cur, 0, m, s, NoEligible))
          ELSE \E d \in choices : Commit(AfterSelect(Cur, 0, m, s, d))
    /\ UNCHANGED <<now, envvars>>

\* select_deployment(model=m, session_id=s) called directly.
SelectCall(limit, m, s) ==
    /\ sel.n < limit
    /\ LET choices == SelectChoices(cooldown_until, tpm_usage, rpm_usage, sessions, m, s)
       IN IF choices = {} THEN Commit(AfterSelect(Cur, 0, m, s, NoEligible))
          ELSE \E d \in choices : Commit(AfterSelect(Cur, 0, m, s, d))
    /\ UNCHANGED <<now, envvars>>

SelectOnly(m, s) == SelectCall(MaxSelects, m, s)

\* select_deployment for the one model every deployment has, with one of
\* many session keys.
SessionSelect(s) == SelectCall(MaxLruSelects, "m1", s)

\* No task is between tenacity's prepare_for_next_attempt and the next
\* attempt: sleep(0) resumes in the same turn of the loop, before the clock
\* moves and before code outside the request tasks runs.
NoZeroSleep == \A t \in Tasks : task[t].pc # "sleep"

\* deployment.models[m].mark_up() on a model that was marked down.
MarkUp(d, m) ==
    /\ NoZeroSleep
    /\ cooldown_until[<<d, m>>] # 0
    /\ cooldown_until' = [cooldown_until EXCEPT ![<<d, m>>] = Model_mark_up(@)]
    /\ UNCHANGED <<now, rpm_usage, tpm_usage, sessions, self_deployments,
                   policy_rs, rs, task, sel, envvars>>

\* deployment.models[m].mark_down(seconds) called from outside a request.
MarkDown(d, m, seconds) ==
    /\ NoZeroSleep
    /\ cooldown_until' =
          [cooldown_until EXCEPT ![<<d, m>>] = Model_mark_down_for(@, seconds)]
    /\ UNCHANGED <<now, rpm_usage, tpm_usage, sessions, self_deployments,
                   policy_rs, rs, task, sel, envvars>>

\* The same, for a cooldown that ends before the clock of the run stops.
MarkDownInTime(d, m, seconds) ==
    /\ Model_mark_down_for(cooldown_until[<<d, m>>], seconds) <= MaxTime
    /\ MarkDown(d, m, seconds)

\* The effect of self.reset_usage() on the models, and the note of it on the
\* calls in flight.
ResetCounters ==
    LET st == reset_usage([cu |-> cooldown_until, rpm |-> rpm_usage,
                           tpm |-> tpm_usage])
    IN /\ cooldown_until' = st.cu
       /\ rpm_usage' = st.rpm
       /\ tpm_usage' = st.tpm
       /\ task' = [t \in Tasks |->
                     IF task[t].pc \in {"upstream", "stream"}
                     THEN [task[t] EXCEPT !.reset = TRUE]
                     ELSE task[t]]

\* Switchboard.reset_usage() called directly (in the runs without tickers it
\* stands for the ticker's call as well).
ResetUsage ==
    /\ \E dm \in DM : rpm_usage[dm] # 0 \/ tpm_usage[dm] # 0
    /\ ResetCounters
    /\ UNCHANGED <<now, sessions, self_deployments, policy_rs, rs, sel,
                   envvars>>

\* Switchboard.start(): a new periodic_reset task is created and stored in
\* ratelimit_reset_task, whatever that held before.
Start ==
    /\ Len(tickers) < MaxStarts
    /\ tickers' = Append(tickers, NewTicker)
    /\ ratelimit_reset_task' = Len(tickers) + 1
    /\ UNCHANGED <<now, cooldown_until, rpm_usage, tpm_usage, sessions,
                   self_deployments, policy_rs, rs, task, sel,
                   ratelimit_window, ctor, stats_result, pick>>

\* Switchboard.stop(): the task ratelimit_reset_task refers to, if any, is
\* cancelled and awaited, the CancelledError swallowed.  A cancelled ticker
\* does not reach reset_usage again; the reference is kept.
Stop ==
    /\ tickers' = IF ratelimit_reset_task # 0
                  THEN [tickers EXCEPT ![ratelimit_reset_task].st = "done"]
                  ELSE tickers
    /\ UNCHANGED <<now, cooldown_until, rpm_usage, tpm_usage, sessions,
                   self_deployments, policy_rs, rs, task, sel,
                   ratelimit_window, ratelimit_reset_task, ctor, stats_result,
                   pick>>

\* The loop runs a newly created ticker for the first time.
TickerRun(i) ==
    /\ i \in 1..Len(tickers)
    /\ tickers[i].st = "created"
    /\ tickers' = [tickers EXCEPT ![i].st = TickerFirstRun(ratelimit_window)]
    /\ UNCHANGED <<now, cooldown_until, rpm_usage, tpm_usage, sessions,
                   self_deployments, policy_rs, rs, task, sel,
                   ratelimit_window, ratelimit_reset_task, ctor, stats_result,
                   pick>>

\* asyncio.sleep(ratelimit_window) of ticker i is over: reset_usage(), then
\* the next sleep.
TickerFire(i) ==
    /\ i \in 1..Len(tickers)
    /\ tickers[i].st = "sleeping"
    /\ ResetCounters
    /\ tickers' = [tickers EXCEPT ![i].fired = TRUE]
    /\ UNCHANGED <<now, sessions, self_deployments, policy_rs, rs, sel,
                   ratelimit_window, ratelimit_reset_task, ctor, stats_result,
                   pick>>

\* Switchboard(deployments) is called.
Construct(deployments) ==
    /\ ctor' = [called |-> TRUE, deployments |-> deployments,
                result |-> Switchboard_init(deployments)]
    /\ UNCHANGED <<now, cooldown_until, rpm_usage, tpm_usage, sessions,
                   self_deployments, policy_rs, rs, task, sel,
                   ratelimit_window, tickers, ratelimit_reset_task,
                   stats_result, pick>>

\* Switchboard.stats() is called: the snapshot is built from the models'
\* fields, nothing is written.  (A call that returns what the latest call
\* returned is a stuttering step.)
Stats ==
    /\ NoZeroSleep
    /\ stats_result' = [called |-> TRUE,
                        out |-> stats([cu |-> cooldown_until, rpm |-> rpm_usage,
                                       tpm |-> tpm_usage])]
    /\ UNCHANGED <<now, cooldown_until, rpm_usage, tpm_usage, sessions,
                   self_deployments, policy_rs, rs, task, sel,
                   ratelimit_window, tickers, ratelimit_reset_task, ctor,
                   pick>>

\* two_random_choices(m, options) is called with a list of deployments.
Choose(m, options) ==
    /\ options # {}
    /\ \E selected \in Samples(options) :
          \E d \in MinByUtil(cooldown_until, tpm_usage, rpm_usage, m, selected) :
              pick' = [called |-> TRUE, model |-> m, options |-> options,
                       selected |-> selected, result |-> d]
    /\ UNCHANGED <<now, cooldown_until, rpm_usage, tpm_usage, sessions,
                   self_deployments, policy_rs, rs, task, sel,
                   ratelimit_window, tickers, ratelimit_reset_task, ctor,
                   stats_result>>

\* The clock advances.
Tick ==
    /\ NoZeroSleep
    /\ now < MaxTime
    /\ now' = now + 1
    /\ UNCHANGED <<cooldown_until, rpm_usage, tpm_usage, sessions,
                   self_deployments, policy_rs, rs, task, sel, envvars>>

\* One caller: create calls are issued one after the other by task 1.
Next ==
    \/ \E m \in RequestModels, s \in {NoSession} \cup SessionKeys, pf \in PfValues :
          CreateStart(1, m, s, pf)
    \/ \E kind \in UpstreamKinds, usage \in UsageValues : UpstreamReturn(1, kind, usage)
    \/ SleepReturn(1)
    \/ \E m \in SelectModels, s \in {NoSession} \cup SessionKeys : SelectOnly(m, s)
    \/ \E dm \in DM : MarkUp(dm[1], dm[2])
    \/ ResetUsage
    \/ Tick

Spec == Init /\ [][Next]_vars

\* Two callers on the same switchboard (and the same default failover
\* policy object): their create calls interleave at the suspension points.
NextConc ==
    \/ \E t \in Tasks : CreateStart(t, "m1", NoSession, 0)
    \/ \E t \in Tasks, kind \in {"ok", "Transient"} : UpstreamReturn(t, kind, NoUsage)
    \/ \E t \in Tasks : SleepReturn(t)
    \/ \E dm \in DM : MarkUp(dm[1], dm[2])

SpecConc == Init /\ [][NextConc]_vars

\* Token accounting: one caller, requests with a preflight estimate,
\* responses and stream chunks with usage, and window resets in between.
NextTok ==
    \/ \E pf \in TokPfValues : CreateStart(1, "m1", NoSession, pf)
    \/ \E pf \in TokPfValues : CreateStream(1, "m1", NoSession, pf)
    \/ \E usage \in TokUsageValues : UpstreamReturn(1, "ok", usage)
    \/ \E usage \in TokUsageValues : StreamChunk(1, usage)
    \/ StreamEnd(1)
    \/ ResetUsage

SpecTok == Init /\ [][NextTok]_vars

\* Requests for one model whose upstream calls may fail, with usage resets and
\* the clock: the runs in which a reset meets a model that is cooling down.
NextCool ==
    \/ CreateStart(1, "m1", NoSession, 0)
    \/ \E kind \in UpstreamKinds : UpstreamReturn(1, kind, NoUsage)
    \/ SleepReturn(1)
    \/ \E kind \in {"RateLimit", "Transient"} : StreamError(1, kind)
    \/ CreateStream(1, "m1", NoSession, 0)
    \/ StreamChunk(1, NoUsage)
    \/ StreamEnd(1)
    \/ ResetUsage
    \/ Tick

SpecCool == Init /\ [][NextCool]_vars

\* Requests with tokens and a session key that may fail, the clock, and
\* stats() calls in between.
NextStats ==
    \/ \E s \in {NoSession} \cup SessionKeys, pf \in TokPfValues :
          CreateStart(1, "m1", s, pf)
    \/ \E kind \in {"ok", "Transient"} : UpstreamReturn(1, kind, NoUsage)
    \/ SleepReturn(1)
    \/ Stats
    \/ Tick

SpecStats == Init /\ [][NextStats]_vars

\* DeploymentState.create called directly, for every model on every
\* deployment, with and without stream, and every way the upstream call and
\* the iteration of the wrapper can end, within one window.
NextDep ==
    \/ \E d \in Deps, m \in {"m1", "m2"}, pf \in TokPfValues, stream \in BOOLEAN :
          DeploymentCreate(1, d, m, pf, stream)
    \/ \E kind \in UpstreamKinds, usage \in DepUsageValues : UpstreamReturn(1, kind, usage)
    \/ \E usage \in DepUsageValues : StreamChunk(1, usage)
    \/ StreamEnd(1)
    \/ \E kind \in {"RateLimit", "Transient"} : StreamError(1, kind)
    \/ StreamCancel(1)

SpecDep == Init /\ [][NextDep]_vars

\* Selections made while a request is in flight: one caller's requests with
\* an estimate, select_deployment called next to them, and window resets.
NextFlight ==
    \/ \E pf \in TokPfValues : CreateStart(1, "m1", NoSession, pf)
    \/ \E usage \in DepUsageValues : UpstreamReturn(1, "ok", usage)
    \/ SelectOnly("m1", NoSession)
    \/ ResetUsage

SpecFlight == Init /\ [][NextFlight]_vars

\* The cooldown clock of the models: mark_down with and without a duration,
\* mark_up, and the clock.
NextMark ==
    \/ \E dm \in DM, seconds \in DurationValues : MarkDown(dm[1], dm[2], seconds)
    \/ \E dm \in DM : MarkUp(dm[1], dm[2])
    \/ Tick

SpecMark == Init /\ [][NextMark]_vars

\* Models that are marked down and never marked up, selections, and a clock
\* that keeps advancing until it stops.
NextHeal ==
    \/ \E dm \in DM, seconds \in DurationValues : MarkDownInTime(dm[1], dm[2], seconds)
    \/ \E m \in SelectModels, s \in {NoSession} \cup SessionKeys : SelectOnly(m, s)
    \/ Tick

SpecHeal == Init /\ [][NextHeal]_vars

\* time.time() advances.
SpecHealFair == SpecHeal /\ WF_vars(Tick)

\* The selector, called with every list of deployments for every model, in
\* every state of the counters and the cooldown clocks.
NextSel == \E m \in {"m1", "m2"}, options \in SUBSET Deps : Choose(m, options)

SpecSel == InitSel /\ [][NextSel]_vars

\* Requests issued concurrently by two callers, with and without a session
\* key, each answered at its first attempt with the same usage, within one
\* window.
NextSum ==
    \/ \E t \in Tasks, s \in {NoSession} \cup SessionKeys, pf \in TokPfValues :
          CreateStart(t, "m1", s, pf)
    \/ \E t \in Tasks : UpstreamReturn(t, "ok", SumUsage)

SpecSum == Init /\ [][NextSum]_vars

\* The session map with deployments that go down and come back: sessions are
\* pinned, moved to another deployment, and evicted.
NextPin ==
    \/ \E s \in LruKeys : SessionSelect(s)
    \/ \E d \in Deps : MarkDown(d, "m1", 0)
    \/ \E d \in Deps : MarkUp(d, "m1")

SpecPin == Init /\ [][NextPin]_vars

\* Models filled to their token limit and beyond by one response, failures
\* that mark a model down, and selections with and without a session key.
NextLimit ==
    \/ \E s \in {NoSession} \cup SessionKeys : CreateStart(1, "m1", s, 0)
    \/ \E kind \in {"ok", "Transient"}, usage \in LimitUsageValues :
          UpstreamReturn(1, kind, usage)
    \/ SleepReturn(1)
    \/ \E s \in {NoSession} \cup SessionKeys : SelectOnly("m1", s)

SpecLimit == Init /\ [][NextLimit]_vars

\* The session map: lookups with many session keys, every deployment healthy.
NextLRU == \E s \in LruKeys : SessionSelect(s)

SpecLRU == Init /\ [][NextLRU]_vars

\* The lifecycle: start, stop and the tickers, next to requests that
\* succeed and direct resets.
NextLife ==
    \/ Start
    \/ Stop
    \/ \E i \in 1..MaxStarts : TickerRun(i)
    \/ \E i \in 1..MaxStarts : TickerFire(i)
    \/ CreateStart(1, "m1", NoSession, 0)
    \/ UpstreamReturn(1, "ok", NoUsage)
    \/ ResetUsage

SpecLife == InitLife /\ [][NextLife]_vars

\* The loop runs every task that is ready and every timer that is due: a new
\* ticker gets its first run, and a sleeping ticker whose reset would change
\* a counter does fire.
SpecLifeFair ==
    SpecLife /\ \A i \in 1..MaxStarts : WF_vars(TickerRun(i)) /\ WF_vars(TickerFire(i))

\* The constructor, called with every list of deployment names.
NextCtor == \E ds \in DeploymentLists : Construct(ds)

SpecCtor == Init /\ [][NextCtor]_vars

(***************************************************************************)
(* Properties                                                              *)
(***************************************************************************)
\* Model m is configured on d and not cooling down at time t.
HealthyAt(cu, t, d, m) == <<d, m>> \in DM /\ t >= cu[<<d, m>>]

\* A step in which select_deployment was called.
SelectStep == sel'.n # sel.n

\* Task t's DeploymentState.create returned (or raised) in this step.
ReturnStep(t) ==
    /\ task[t].pc = "upstream"
    /\ task'[t].pc # "upstream" \/ task'[t].nsel # task[t].nsel

\* C1: a select_deployment call that returns gives a deployment on which the
\* model is configured and healthy at the time of the call, on the session
\* path as on the selector path; it fails with the no-eligible-deployments
\* error exactly when no deployment is healthy for the model.
C1_SelectionHealthy ==
    [][SelectStep =>
         /\ sel'.result \in Deps =>
               HealthyAt(cooldown_until', now', sel'.result, sel'.model)
         /\ sel'.result = NoEligible <=>
               \A d \in Deps : ~HealthyAt(cooldown_until', now', d, sel'.model)
         /\ sel'.result \in Deps \cup {NoEligible}]_vars

\* A call returned the session's deployment while another deployment was
\* cooling down for the model.
C1_Witness ==
    /\ sel.result \in Deps
    /\ sel.pinned = sel.result
    /\ \E d \in Deps : <<d, sel.model>> \in DM
                        /\ ~HealthyAt(cooldown_until, now, d, sel.model)

\* C2 (as claimed): when the first attempt is answered with a rate-limit
\* error and another deployment is healthy for the model, the call goes on
\* to a second attempt instead of ending.
C2_RateLimitFailover ==
    \A t \in Tasks :
        (/\ task[t].nsel = 1
         /\ task[t].last_kind = "RateLimit"
         /\ sel.by = t
         /\ \E d \in Deps \ {task[t].last_dep} :
               HealthyAt(cooldown_until, now, d, sel.model))
        => task[t].pc # "idle"

\* C3: after a first attempt that failed on A with a transient upstream
\* fault, A's model is down while the call waits for its second attempt, and
\* the second attempt runs on a deployment other than A.
C3_FailoverExcludesFailed ==
    \A t \in Tasks :
        /\ (task[t].pc = "sleep" /\ task[t].nsel = 1 /\ task[t].last_kind = "Transient")
              => ~HealthyAt(cooldown_until, now, task[t].last_dep, task[t].model)
        /\ (task[t].pc = "upstream" /\ task[t].nsel = 2 /\ task[t].last_kind = "Transient")
              => task[t].dep # task[t].last_dep

\* A second attempt of a request with a session key is in flight after the
\* first one failed with a transient fault.
C3_Witness ==
    \E t \in Tasks :
        /\ task[t].pc = "upstream"
        /\ task[t].nsel = 2
        /\ task[t].last_kind = "Transient"
        /\ task[t].session # NoSession
        /\ task[t].dep \in Deps

C5_CancelNotRetried ==
    \A t \in Tasks :
        task[t].last_kind = "Cancelled"
        => task[t].pc = "idle" /\ task[t].final = "CancelledError"

\* C6 (as claimed): a create call makes at most 2 attempts; no third
\* select_deployment + DeploymentState.create pair reaches upstream.
C6_AtMostTwoAttempts ==
    \A t \in Tasks : task[t].pc = "upstream" => task[t].nsel <= 2

\* C7: when no deployment is healthy for the model as create starts, the
\* call ends in that first attempt with the no-eligible-deployments error:
\* one select_deployment, no upstream call, no retry, and no usage counter or
\* cooldown changes.
C7_NoEligibleFirstAttempt ==
    [][\A t \in Tasks :
          (/\ task[t].pc = "idle"
           /\ SelectStep
           /\ sel'.by = t
           /\ \A d \in Deps : ~HealthyAt(cooldown_until, now, d, sel'.model))
          => /\ task'[t].pc = "idle"
             /\ task'[t].final = NoEligible
             /\ task'[t].nsel = 1
             /\ sel'.n = sel.n + 1
             /\ sel'.result = NoEligible
             /\ UNCHANGED <<rpm_usage, tpm_usage, cooldown_until>>]_vars

\* A create call for a model that is configured, with every deployment of
\* it marked down, ended with the no-eligible-deployments error.
C7_Witness ==
    \E t \in Tasks :
        /\ task[t].pc = "idle"
        /\ task[t].final = NoEligible
        /\ sel.by = t
        /\ sel.model = "m1"
        /\ \A d \in Deps : ~HealthyAt(cooldown_until, now, d, "m1")

\* C8: of two consecutive select_deployment calls with the same non-empty
\* session key and model, the second returns the deployment the first
\* returned if and only if that deployment is healthy at the second call.
C8_SessionStickiness ==
    [][(/\ SelectStep
        /\ sel'.session # NoSession
        /\ sel'.session = sel.session
        /\ sel'.model = sel.model
        /\ sel.result \in Deps)
       => (sel'.result = sel.result
             <=> HealthyAt(cooldown_until', now', sel.result, sel.model))]_vars

\* The second of two such calls moved away from the first one's deployment.
C8_Witness ==
    /\ sel.consec
    /\ sel.result \in Deps
    /\ sel.pinned \in Deps
    /\ sel.result # sel.pinned

\* C9: a select_deployment call with a session key that is pinned to P
\* returns P and leaves the pin when P is healthy, whatever the health of the
\* other deployments (a restored former deployment is not taken back); when
\* P is unhealthy and another deployment is healthy it returns another
\* deployment and the session map now holds that one.
C9_SessionRepin ==
    [][(SelectStep /\ SessionLookup(sessions, sel'.session))
       => LET s == sel'.session
              P == SessGet(sessions, s)
              m == sel'.model
          IN /\ HealthyAt(cooldown_until', now', P, m)
                  => sel'.result = P /\ SessGet(sessions', s) = P
             /\ (/\ ~HealthyAt(cooldown_until', now', P, m)
                 /\ \E d \in Deps : HealthyAt(cooldown_until', now', d, m))
                  => /\ sel'.result \in Deps \ {P}
                     /\ SessionLookup(sessions', s)
                     /\ SessGet(sessions', s) = sel'.result]_vars

\* The session was moved from A to B, A is healthy again, and the call with
\* the session key was still served by B.
C9_Witness ==
    /\ sel.session # NoSession
    /\ sel.moved = "A"
    /\ sel.pinned = "B"
    /\ sel.result = "B"
    /\ SessionLookup(sessions, sel.session)
    /\ SessGet(sessions, sel.session) = "B"
    /\ HealthyAt(cooldown_until, now, "A", sel.model)

\* C10 (as claimed): when DeploymentState.create returns or fails with a
\* retryable error, rpm_usage of the attempted model is greater than it was
\* when the call began.
C10_RpmGrows ==
    [][\A t \in Tasks :
          (ReturnStep(t) /\ task'[t].last_kind \in {"ok", "RateLimit", "Transient"})
          => rpm_usage'[<<task[t].dep, task[t].model>>] > task[t].rpm_before]_vars

\* C10 (amended): the same, for calls during which reset_usage did not run.
C10_RpmGrowsUnlessReset ==
    [][\A t \in Tasks :
          (/\ ReturnStep(t)
           /\ task'[t].last_kind \in {"ok", "RateLimit", "Transient"}
           /\ ~task[t].reset)
          => rpm_usage'[<<task[t].dep, task[t].model>>] > task[t].rpm_before]_vars

\* A create on a deployment failed with a transient fault and the request is
\* counted on it.
C10_Witness ==
    \E t \in Tasks :
        /\ task[t].pc = "sleep"
        /\ task[t].last_kind = "Transient"
        /\ rpm_usage[<<task[t].last_dep, task[t].model>>] >= 1

\* The tokens a finished non-streaming call is accounted with: the response's
\* total_tokens, or the preflight estimate when it has no usage record.
TokensOf(usage, pf) == IF usage = NoUsage THEN pf ELSE usage

\* Task t's non-streaming DeploymentState.create returned a response.
ResponseStep(t) ==
    /\ ReturnStep(t)
    /\ ~task[t].stream
    /\ task'[t].last_kind = "ok"

\* C11 (as claimed): when a non-streaming DeploymentState.create returns a
\* response, tpm_usage of the model has grown since the call began by the
\* response's total_tokens, or by the preflight estimate when the response
\* has no usage record.
C11_TpmReconciled ==
    [][\A t \in Tasks :
          ResponseStep(t)
          => tpm_usage'[<<task[t].dep, task[t].model>>] - task[t].tpm_before
               = TokensOf(task'[t].last_usage, task[t].pf)]_vars

\* C11 (amended): the same, for calls during which reset_usage did not run.
C11_TpmReconciledUnlessReset ==
    [][\A t \in Tasks :
          (ResponseStep(t) /\ ~task[t].reset)
          => tpm_usage'[<<task[t].dep, task[t].model>>] - task[t].tpm_before
               = TokensOf(task'[t].last_usage, task[t].pf)]_vars

\* A call with a preflight estimate got a response with usage, after an
\* earlier call had left tokens on the same model: the counter holds both
\* totals (1 + 3, or 3 + 3 ...), the estimate is gone.
C11_Witness ==
    \E t \in Tasks :
        /\ task[t].pc = "idle"
        /\ task[t].final = "ok"
        /\ task[t].last_usage = 3
        /\ task[t].last_dep \in Deps
        /\ tpm_usage[<<task[t].last_dep, "m1">>] = 4

\* Task t's stream ended after one chunk with usage.
StreamEndStep(t) ==
    /\ task[t].pc = "stream"
    /\ task'[t].pc = "idle"
    /\ task'[t].final = "ok"
    /\ task[t].usage_chunks = 1

\* C12 (as claimed): when a stream that yielded a chunk with usage is fully
\* consumed, tpm_usage of the model has grown since create began by that
\* chunk's total_tokens, however many chunks there were.
C12_StreamReconciled ==
    [][\A t \in Tasks :
          StreamEndStep(t)
          => tpm_usage'[<<task[t].dep, task[t].model>>] - task[t].tpm_before
               = task[t].last_usage]_vars

\* C12 (amended): the same, for streams during which reset_usage did not run.
C12_StreamReconciledUnlessReset ==
    [][\A t \in Tasks :
          (StreamEndStep(t) /\ ~task[t].reset)
          => tpm_usage'[<<task[t].dep, task[t].model>>] - task[t].tpm_before
               = task[t].last_usage]_vars

\* A stream opened with a preflight estimate of 2 yielded MaxChunks chunks,
\* one of them with usage, and the counter has grown by that usage.
C12_Witness ==
    \E t \in Tasks :
        /\ task[t].pc = "stream"
        /\ task[t].pf = 2
        /\ task[t].chunks = MaxChunks
        /\ task[t].usage_chunks = 1
        /\ ~task[t].reset
        /\ tpm_usage[<<task[t].dep, task[t].model>>]
             = task[t].tpm_before + task[t].last_usage

\* C13: right after Switchboard.reset_usage() returns, tpm_usage and
\* rpm_usage are 0 for every (deployment, model) pair.
C13_ResetZeroes ==
    [][ResetUsage => \A dm \in DM : rpm_usage'[dm] = 0 /\ tpm_usage'[dm] = 0]_vars

\* reset_usage ran while a request that had spent a preflight estimate and
\* a request slot was in flight, and every counter is 0.
C13_Witness ==
    \E t \in Tasks :
        /\ task[t].pc \in {"upstream", "stream"}
        /\ task[t].pf > 0
        /\ task[t].reset
        /\ \A dm \in DM : rpm_usage[dm] = 0 /\ tpm_usage[dm] = 0

\* C14: reset_usage() leaves cooldown_until of every model as it was; a model
\* that was cooling down before the reset is unhealthy after it.
C14_ResetKeepsCooldown ==
    [][ResetUsage =>
         /\ cooldown_until' = cooldown_until
         /\ \A dm \in DM :
               ~HealthyAt(cooldown_until, now, dm[1], dm[2])
               => ~HealthyAt(cooldown_until', now', dm[1], dm[2])]_vars

\* reset_usage ran during a request while a model was cooling down, and the
\* model is still cooling down.
C14_Witness ==
    \E t \in Tasks :
        /\ task[t].pc = "upstream"
        /\ task[t].reset
        /\ \A dm \in DM : rpm_usage[dm] = 0
        /\ \E dm \in DM : ~HealthyAt(cooldown_until, now, dm[1], dm[2])

\* The keys of a session map.
KeysOf(S) == {S[i].key : i \in 1..Len(S)}

\* C15: the session map never has more than max_sessions entries (one per
\* key), whatever session keys select_deployment was called with.
C15_SessionsBounded ==
    /\ Len(sessions) <= max_sessions
    /\ Cardinality(KeysOf(sessions)) = Len(sessions)

\* The map is full and the latest call evicted an entry to stay so.
C15_Witness ==
    /\ Len(sessions) = max_sessions
    /\ sel.evicted # {}

\* C16 (as claimed): after any sequence of start() and stop() calls at most
\* one reset ticker is running.
C16_OneTicker == Cardinality(Running) <= 1

\* Some counter of some model is not 0.
SomeUsage == \E dm \in DM : rpm_usage[dm] # 0 \/ tpm_usage[dm] # 0

\* C17: with ratelimit_window > 0, while a ticker started by start() runs,
\* usage that was recorded is eventually reset to 0 (or the tickers are
\* stopped); with ratelimit_window = 0 no ticker ever sleeps or resets.
C17_TickerResets ==
    /\ (ratelimit_window > 0 /\ Running # {} /\ SomeUsage)
          ~> (~SomeUsage \/ Running = {})
    /\ [](ratelimit_window = 0 =>
            \A i \in 1..Len(tickers) :
                tickers[i].st # "sleeping" /\ ~tickers[i].fired)

\* A ticker has reset the counters and sleeps again.
C17_Witness ==
    /\ ratelimit_window > 0
    /\ \E i \in 1..Len(tickers) : tickers[i].fired /\ tickers[i].st = "sleeping"
    /\ ~SomeUsage
    /\ task[1].final = "ok"

\* C18: the constructor fails exactly when the deployment list is empty or
\* has two deployments of the same name; otherwise the deployments map is
\* non-empty and has exactly one entry per distinct name given.
C18_ConstructorChecks ==
    ctor.called =>
        LET ds == ctor.deployments
            names == {ds[i] : i \in 1..Len(ds)}
            got == ctor.result.names
        IN /\ ctor.result.error <=> (ds = <<>> \/ Cardinality(names) < Len(ds))
           /\ ~ctor.result.error =>
                 /\ got # <<>>
                 /\ {got[i] : i \in 1..Len(got)} = names
                 /\ Len(got) = Cardinality(names)

\* The constructor refused a non-empty list, one with a repeated name.
C18_Witness ==
    /\ ctor.called
    /\ ctor.result.error
    /\ Len(ctor.deployments) >= 2

\* C19: when a select_deployment call evicts from the session map, it evicts
\* one entry, not the one of the key it just wrote, and the one whose latest
\* use (read or write) is older than that of every entry that stays.
C19_EvictsLeastRecent ==
    [][(SelectStep /\ sel'.evicted # {})
       => /\ Cardinality(sel'.evicted) = 1
          /\ sel'.session \notin sel'.evicted
          /\ Len(sessions) = max_sessions
          /\ \A e \in sel'.evicted :
                \A k \in KeysOf(sessions) \ {e} :
                    sel.lastuse[e] < sel.lastuse[k]]_vars

\* An eviction by the call that brought in key number max_sessions + 1,
\* after one of the earlier calls had read a key that was in the map.
C19_Witness ==
    /\ sel.evicted # {}
    /\ sel.n = max_sessions + 2
    /\ Cardinality({k \in DOMAIN sel.lastuse : sel.lastuse[k] > 0}) = max_sessions + 1

C21_LastErrorReraised ==
    \A t \in Tasks :
        (task[t].pc = "idle" /\ task[t].final \in {"RuntimeError", "CancelledError"})
        => /\ task[t].final = task[t].last_exc
           /\ task[t].final_by = t

\* C22: a stats() call changes no usage counter, no cooldown and no session
\* entry or order, and what it returns has, for every deployment and every
\* model configured on it, the usage counters held at the call and the limits.
C22_StatsPureRead ==
    [][Stats =>
         /\ UNCHANGED <<tpm_usage, rpm_usage, cooldown_until, sessions>>
         /\ DOMAIN stats_result'.out = Deps
         /\ \A d \in Deps :
               /\ DOMAIN stats_result'.out[d] = ConfiguredModels(d)
               /\ \A m \in ConfiguredModels(d) :
                     LET u == stats_result'.out[d][m] IN
                     /\ u.tpm_usage = tpm_usage[<<d, m>>]
                     /\ u.rpm_usage = rpm_usage[<<d, m>>]
                     /\ u.tpm_limit = TpmLimit
                     /\ u.rpm_limit = RpmLimit]_vars

\* stats() was called while a request with a session key was in flight on a
\* deployment, with its preflight spend counted and another model cooling
\* down; the snapshot shows the spend.
C22_Witness ==
    /\ stats_result.called
    /\ task[1].pc = "upstream"
    /\ task[1].session # NoSession
    /\ sessions # <<>>
    /\ \E dm \in DM : now < cooldown_until[dm]
    /\ stats_result.out[task[1].dep]["m1"].tpm_usage = 2
    /\ tpm_usage[<<task[1].dep, "m1">>] = 2

\* Task t called DeploymentState.create itself in this step.
DirectCallStep(t) ==
    /\ task[t].pc = "idle"
    /\ task'[t].direct
    /\ task'[t] # task[t]

\* C23: DeploymentState.create for a model that is not configured on the
\* deployment raises the not-configured error at once: the upstream is not
\* called (the call is not left awaiting), and no counter and no cooldown of
\* any model changes.
C23_NotConfiguredNoAccounting ==
    [][\A t \in Tasks :
          (/\ DirectCallStep(t)
           /\ task'[t].model \notin
                 ConfiguredModels(IF task'[t].pc = "idle" THEN task'[t].last_dep
                                  ELSE task'[t].dep))
          => /\ task'[t].pc = "idle"
             /\ task'[t].final = "NotConfigured"
             /\ UNCHANGED <<tpm_usage, rpm_usage, cooldown_until>>]_vars

\* create for m2 on B, which does not have it, was refused while A.m2 had
\* usage from an earlier request.
C23_Witness ==
    \E t \in Tasks :
        /\ task[t].pc = "idle"
        /\ task[t].direct
        /\ task[t].final = "NotConfigured"
        /\ task[t].last_dep = "B"
        /\ rpm_usage[<<"A", "m2">>] > 0

\* The upstream call of task t's direct DeploymentState.create ended.
DirectReturnStep(t) == ReturnStep(t) /\ task[t].direct

C25_CancelLeavesState ==
    [][\A t \in Tasks :
          /\ (DirectReturnStep(t) /\ task'[t].last_kind = "Cancelled")
               => /\ task'[t].pc = "idle"
                  /\ task'[t].final = "CancelledError"
                  /\ UNCHANGED <<cooldown_until, rpm_usage, tpm_usage>>
                  /\ rpm_usage'[<<task[t].dep, task[t].model>>]
                       = task[t].rpm_before + 1
                  /\ tpm_usage'[<<task[t].dep, task[t].model>>]
                       = task[t].tpm_before + task[t].pf
          /\ (/\ task[t].pc = "stream"
              /\ task'[t].pc = "idle"
              /\ task'[t].last_kind = "Cancelled")
               => /\ task'[t].final = "CancelledError"
                  /\ UNCHANGED <<cooldown_until, rpm_usage, tpm_usage>>]_vars

\* A direct create (or the iteration of its stream) was cancelled while the
\* model held its estimate of 2 tokens, and the model is healthy.
C25_Witness ==
    \E t \in Tasks :
        /\ task[t].pc = "idle"
        /\ task[t].direct
        /\ task[t].final = "CancelledError"
        /\ HealthyAt(cooldown_until, now, task[t].last_dep, "m1")
        /\ tpm_usage[<<task[t].last_dep, "m1">>] = 2
        /\ rpm_usage[<<task[t].last_dep, "m1">>] = 1

\* C26: when the iteration of a stream wrapper ends with an upstream
\* exception, the consumer gets the translated error (the rate-limited one
\* for a rate-limit error, the other one otherwise) with the stream's model
\* marked down; the counters keep the preflight spend and what the chunks
\* yielded before reconciled.
C26_StreamErrorMarksDown ==
    [][\A t \in Tasks :
          (/\ task[t].pc = "stream"
           /\ task'[t].pc = "idle"
           /\ task'[t].last_kind \in {"RateLimit", "Transient"})
          => LET dm == <<task[t].dep, task[t].model>> IN
             /\ task'[t].final = IF task'[t].last_kind = "RateLimit"
                                 THEN "RateLimited" ELSE "RuntimeError"
             /\ ~HealthyAt(cooldown_until', now', dm[1], dm[2])
             /\ \A other \in DM \ {dm} : cooldown_until'[other] = cooldown_until[other]
             /\ UNCHANGED <<rpm_usage, tpm_usage>>
             /\ rpm_usage'[dm] = task[t].rpm_before + 1
             /\ task[t].usage_chunks = 0
                  => tpm_usage'[dm] = task[t].tpm_before + task[t].pf]_vars

\* A stream on A.m2 that had yielded a chunk with usage failed with a rate
\* limit: A.m2 is down and counts the request, A.m1 is healthy.
C26_Witness ==
    \E t \in Tasks :
        /\ task[t].pc = "idle"
        /\ task[t].final = "RateLimited"
        /\ task[t].last_dep = "A"
        /\ task[t].last_usage = 1
        /\ now < cooldown_until[<<"A", "m2">>]
        /\ HealthyAt(cooldown_until, now, "A", "m1")
        /\ rpm_usage[<<"A", "m2">>] = 1
        /\ tpm_usage[<<"A", "m2">>] = 1

\* What the model's token counter has grown by since create began, while
\* task t's stream is open, if the estimate was taken off exactly once when
\* a chunk with usage was seen and never otherwise.
StreamAccounted(t) ==
    IF task[t].usage_chunks = 0 THEN task[t].pf ELSE task[t].last_usage

\* C27 (as claimed): while a stream is iterated, within one window, the
\* model's token counter stands at its value before the request plus the
\* estimate (no chunk with usage seen yet) or plus the total of the latest
\* chunk with usage, however many chunks the stream carried: the estimate is
\* never taken off twice.
C27_OffsetOnce ==
    \A t \in Tasks :
        (task[t].pc = "stream" /\ task[t].direct)
        => tpm_usage[<<task[t].dep, task[t].model>>]
             = task[t].tpm_before + StreamAccounted(t)

\* C27 (amended): the same for streams that carried at most one chunk with
\* usage.
C27_OffsetOnceSingleUsage ==
    \A t \in Tasks :
        (task[t].pc = "stream" /\ task[t].direct /\ task[t].usage_chunks <= 1)
        => tpm_usage[<<task[t].dep, task[t].model>>]
             = task[t].tpm_before + StreamAccounted(t)

\* A stream on A.m2 opened with an estimate of 2 tokens has yielded its
\* chunks, the last of them with a usage total of 1: the counter stands at 1.
C27_Witness ==
    \E t \in Tasks :
        /\ task[t].pc = "stream"
        /\ task[t].direct
        /\ task[t].dep = "A"
        /\ task[t].model = "m2"
        /\ task[t].pf = 2
        /\ task[t].chunks = MaxChunks
        /\ task[t].usage_chunks = 1
        /\ task[t].tpm_before = 0
        /\ tpm_usage[<<"A", "m2">>] = 1

\* The request of task t, awaiting upstream, is counted on its model: the
\* request and the estimate are in the counters, nothing is reconciled yet,
\* and the model's utilization is above 0.
InFlightCounted(t) ==
    LET dm == <<task[t].dep, task[t].model>> IN
    /\ rpm_usage[dm] = task[t].rpm_before + 1
    /\ tpm_usage[dm] = task[t].tpm_before + task[t].pf
    /\ util(cooldown_until, tpm_usage, rpm_usage, dm[1], dm[2]) > 0

\* A direct select_deployment call in this step, made while task t awaits
\* upstream on a deployment and some other deployment is idle (healthy, no
\* usage), does not return t's deployment.
SelectAvoidsInFlight(t) ==
    (/\ SelectStep
     /\ sel'.by = 0
     /\ sel'.model = task[t].model
     /\ \E e \in Deps \ {task[t].dep} :
           /\ HealthyAt(cooldown_until, now, e, task[t].model)
           /\ rpm_usage[<<e, task[t].model>>] = 0
           /\ tpm_usage[<<e, task[t].model>>] = 0)
    => sel'.result # task[t].dep

\* C28 (as claimed): whenever a request awaits upstream, its preflight spend
\* is in the target model's counters and nothing is reconciled yet, so a
\* selection made meanwhile sees the request in the target's utilization.
C28_InFlightCounted ==
    \A t \in Tasks : task[t].pc = "upstream" => InFlightCounted(t)

\* C28 (amended): the same for requests during whose upstream await
\* reset_usage did not run; a selection made meanwhile then prefers an idle
\* deployment to the request's.
C28_InFlightCountedUnlessReset ==
    /\ [](\A t \in Tasks :
            (task[t].pc = "upstream" /\ ~task[t].reset) => InFlightCounted(t))
    /\ [][\A t \in Tasks :
            (task[t].pc = "upstream" /\ ~task[t].reset) => SelectAvoidsInFlight(t)]_vars

\* select_deployment was called while a request with an estimate of 2 tokens
\* awaited upstream, and returned the other deployment.
C28_Witness ==
    \E t \in Tasks :
        /\ task[t].pc = "upstream"
        /\ ~task[t].reset
        /\ task[t].pf = 2
        /\ tpm_usage[<<task[t].dep, "m1">>] = task[t].tpm_before + 2
        /\ sel.by = 0
        /\ sel.result \in Deps \ {task[t].dep}

UtilSup100(cu, tpm, rpm, d, m) ==
    IF Model_is_healthy(cu[<<d, m>>])
    THEN 100 * util(cu, tpm, rpm, d, m) + UtilScale
    ELSE 100 * util(cu, tpm, rpm, d, m)

\* C30 (as claimed): for every model, whatever util() returns lies in
\* [0, 1]: the larger of the two usage ratios plus any tie-breaker below 0.01
\* when the model is healthy, and 1 when it is cooling down.
C30_UtilInUnitInterval ==
    \A dm \in DM :
        /\ util(cooldown_until, tpm_usage, rpm_usage, dm[1], dm[2]) >= 0
        /\ UtilSup100(cooldown_until, tpm_usage, rpm_usage, dm[1], dm[2])
             <= 100 * UtilScale
        /\ ~Model_is_healthy(cooldown_until[dm])
             => util(cooldown_until, tpm_usage, rpm_usage, dm[1], dm[2]) = UtilScale

\* C31 (as claimed): while a model is cooling down, no step other than a
\* mark_up moves its cooldown_until earlier: every further mark_down, with the
\* default period or with a duration, leaves it later (or, at the same clock
\* reading, where it was).
C31_CooldownMonotonic ==
    [][\A dm \in DM :
          (now < cooldown_until[dm] /\ cooldown_until'[dm] # 0)
          => cooldown_until'[dm] >= cooldown_until[dm]]_vars

\* Model m is in the eligible list of select_deployment, by way of d.
Eligible(d, m) == d \in SeqRange(eligible_deployments(cooldown_until, m))

\* C32: a model that is cooling down until c becomes healthy again, and its
\* deployment eligible for it, as time advances, unless a further mark_down
\* moves its cooldown_until first; no mark_up is needed.
C32_EventuallyHealthy ==
    \A dm \in DM : \A c \in 1..MaxTime :
        (cooldown_until[dm] = c /\ now < c)
        ~> \/ /\ is_healthy(cooldown_until, dm[1], dm[2])
              /\ Eligible(dm[1], dm[2])
           \/ cooldown_until[dm] # c

\* A was marked down for m2, never marked up, and after the cooldown a
\* select_deployment call for m2 returned A.
C32_Witness ==
    /\ cooldown_until[<<"A", "m2">>] > 0
    /\ now >= cooldown_until[<<"A", "m2">>]
    /\ sel.model = "m2"
    /\ sel.result = "A"

\* util() of d for the model of the latest two_random_choices call, without
\* the tie-breaker (scaled).
PickUtil(d) == util(cooldown_until, tpm_usage, rpm_usage, d, pick.model)

InFlight == {t \in Tasks : task[t].pc = "upstream"}

\* C34: with every request answered at its first attempt with usage SumUsage
\* and no reset, after N requests were issued the rpm counters of all models
\* sum to N, whatever the interleaving; the tpm counters sum to SumUsage for
\* each request answered plus the estimate of each request in flight, hence
\* to N * SumUsage once all are answered; nothing is counted on a model the
\* requests were not for.
C34_CountedOnce ==
    LET N == sel.n
        pf == [t \in Tasks |-> task[t].pf]
    IN /\ SumOver(rpm_usage, DM) = N
       /\ SumOver(tpm_usage, DM)
            = (N - Cardinality(InFlight)) * SumUsage + SumOver(pf, InFlight)
       /\ InFlight = {} => SumOver(tpm_usage, DM) = N * SumUsage
       /\ rpm_usage[<<"A", "m2">>] = 0 /\ tpm_usage[<<"A", "m2">>] = 0

\* Two requests with different estimates are in flight together on one
\* deployment after an earlier one was answered.
C34_Witness ==
    /\ InFlight = Tasks
    /\ task[1].dep = task[2].dep
    /\ task[1].pf # task[2].pf
    /\ sel.n = 3
    /\ SumOver(rpm_usage, DM) = 3

\* The (deployment, model) pair of the DeploymentState.create call that task t
\* makes, or goes on with, in this step.
AttemptPair(t) ==
    IF task[t].pc = "idle"
    THEN <<IF task'[t].pc = "idle" THEN task'[t].last_dep ELSE task'[t].dep,
           task'[t].model>>
    ELSE <<task[t].dep, task[t].model>>

\* C35: every step of a DeploymentState.create call on D for m (the preflight,
\* the end of the upstream call with a response or a failure, a chunk or an
\* error of its stream) leaves the usage counters and cooldown_until of every
\* pair other than (D, m) as they were.
C35_AttemptFrame ==
    [][\A t \in Tasks :
          task'[t] # task[t]
          => \A dm \in DM \ {AttemptPair(t)} :
                /\ rpm_usage'[dm] = rpm_usage[dm]
                /\ tpm_usage'[dm] = tpm_usage[dm]
                /\ cooldown_until'[dm] = cooldown_until[dm]]_vars

\* A create for m2 on A failed and marked A.m2 down, after a request on A.m1:
\* A.m1 is healthy and holds its one request, B.m1 holds nothing.
C35_Witness ==
    \E t \in Tasks :
        /\ task[t].pc = "idle"
        /\ task[t].direct
        /\ task[t].final = "RuntimeError"
        /\ task[t].model = "m2"
        /\ task[t].last_dep = "A"
        /\ now < cooldown_until[<<"A", "m2">>]
        /\ rpm_usage[<<"A", "m2">>] = 1
        /\ cooldown_until[<<"A", "m1">>] = 0
        /\ rpm_usage[<<"A", "m1">>] = 1
        /\ rpm_usage[<<"B", "m1">>] = 0
\* C36: every deployment the session map holds is in the deployments map, and
\* the deployments map, with the models of each deployment, is what the
\* constructor left, whatever was pinned, moved or evicted.
C36_DeploymentsFixed ==
    /\ \A i \in 1..Len(sessions) :
          sessions[i].dep \in SeqRange(DeploymentNamesOf(self_deployments))
    /\ self_deployments = DeploymentsAtConstruction

\* The map is full, more keys were used than it holds (one was evicted), and
\* the latest call moved its session away from a deployment that went down.
C36_Witness ==
    /\ Len(sessions) = max_sessions
    /\ Cardinality({k \in DOMAIN sel.lastuse : sel.lastuse[k] > 0}) > max_sessions
    /\ sel.moved \in Deps
    /\ sel.result \in Deps \ {sel.moved}
\* C37 (as claimed): also when create calls interleave, a call that has
\* ended made at least one attempt, a call is never in its third attempt, and
\* a call that ended with an attempt of its own failed by a retryable fault as
\* its latest upstream answer made exactly two attempts: the failure was
\* retried once.
C37_AttemptsIndependent ==
    \A t \in Tasks :
        /\ (task[t].pc = "idle" /\ task[t].final # "none") => task[t].nsel >= 1
        /\ task[t].nsel <= 2
        /\ (task[t].pc = "idle" /\ task[t].final # "none"
               /\ task[t].last_kind = "Transient")
             => task[t].nsel = 2
\* No deployment other than d is healthy for m.
OnlyHealthy(d, m) ==
    \A e \in Deps \ {d} : ~HealthyAt(cooldown_until, now, e, m)

\* C38: when the first attempt of a create call fails with a retryable
\* upstream fault on a deployment that was the only one healthy for the model,
\* the call goes on to a second attempt with every deployment unhealthy; that
\* attempt ends in select_deployment, and the call ends with the
\* no-eligible-deployments error, not with the upstream error, after two
\* selections and one upstream call.
C38_SoleDeploymentFails ==
    [][\A t \in Tasks :
          /\ (/\ ReturnStep(t)
               /\ task[t].nsel = 1
               /\ task'[t].last_kind \in {"Transient", "Client4xx"}
               /\ OnlyHealthy(task[t].dep, task[t].model))
              => /\ task'[t].pc = "sleep"
                 /\ \A d \in Deps :
                       ~HealthyAt(cooldown_until', now', d, task[t].model)
          /\ (/\ task[t].pc = "sleep"
               /\ task'[t].pc # "sleep"
               /\ task[t].nsel = 1
               /\ task[t].last_kind \in {"Transient", "Client4xx"}
               /\ OnlyHealthy(task[t].last_dep, task[t].model))
              => /\ task'[t].pc = "idle"
                 /\ task'[t].final = NoEligible
                 /\ task'[t].final # task[t].last_exc
                 /\ task'[t].nsel = 2
                 /\ sel'.result = NoEligible
                 /\ UNCHANGED <<rpm_usage, tpm_usage, cooldown_until>>]_vars

\* A call ended with the no-eligible-deployments error after its one upstream
\* call, to B, had failed with a transient fault while A was cooling down.
C38_Witness ==
    \E t \in Tasks :
        /\ task[t].pc = "idle"
        /\ task[t].final = NoEligible
        /\ task[t].nsel = 2
        /\ task[t].last_kind = "Transient"
        /\ task[t].last_dep = "B"
        /\ \A d \in Deps : ~HealthyAt(cooldown_until, now, d, "m1")
\* The iteration of task t's stream wrapper ended with an upstream error.
StreamErrorStep(t) ==
    /\ task[t].pc = "stream"
    /\ task'[t].pc # "stream"
    /\ task'[t].last_kind \in {"RateLimit", "Transient"}

\* C39: a retryable failure of the call that opens a stream is retried like
\* any first attempt; an upstream error during the iteration of the wrapper
\* create returned ends the request: the consumer gets the translated error,
\* the stream's model is marked down, and no select_deployment call, no
\* further attempt and no request on any deployment follows from it.
C39_NoFailoverMidStream ==
    [][\A t \in Tasks :
          /\ (/\ ReturnStep(t)
               /\ task[t].stream
               /\ task[t].nsel = 1
               /\ task'[t].last_kind = "Transient")
              => task'[t].pc = "sleep"
          /\ StreamErrorStep(t)
              => /\ task'[t].pc = "idle"
                 /\ task'[t].final = IF task'[t].last_kind = "RateLimit"
                                     THEN "RateLimited" ELSE "RuntimeError"
                 /\ ~HealthyAt(cooldown_until', now', task[t].dep, task[t].model)
                 /\ task'[t].nsel = task[t].nsel
                 /\ UNCHANGED <<sel, sessions, rpm_usage, tpm_usage, rs, policy_rs>>]_vars

\* A request ended with the upstream error after a single attempt, on A,
\* while B was healthy for the model: its stream failed after it was opened.
C39_Witness ==
    \E t \in Tasks :
        /\ task[t].pc = "idle"
        /\ task[t].final = "RuntimeError"
        /\ task[t].nsel = 1
        /\ task[t].last_kind = "Transient"
        /\ task[t].last_dep = "A"
        /\ ~HealthyAt(cooldown_until, now, "A", "m1")
        /\ HealthyAt(cooldown_until, now, "B", "m1")
\* Model m on d has used up its token or request limit, or more.
AtLimit(d, m) ==
    \/ tpm_usage[<<d, m>>] >= TpmLimit
    \/ rpm_usage[<<d, m>>] >= RpmLimit

====
